---- MODULE Spec2Model ----
(***************************************************************************)
(* Find-YouTube-Gems content script: src/src/content/ContentPage.tsx.      *)
(*                                                                         *)
(* The model follows the current revision of ContentPage.tsx (lines 1-526).*)
(* One handleClick invocation is a process that advances only at its await *)
(* points (JavaScript runs each continuation to completion):               *)
(*   Click        - handleClick up to the first fetch of youtubeFetch      *)
(*   FetchSettle  - fetch + res.json() of one youtubeFetch attempt settle, *)
(*                  and everything the code does until the next await      *)
(*   CooldownElapsed - the 500 ms timer of a retry fires                   *)
(*   VoteSettle   - one fetchLikeAndDislikes lookup settles                *)
(* Scores are integers in units of 1e-6 (toFixed(6)); like percentages are *)
(* integers in units of 1e-3 percent.                                      *)
(***************************************************************************)
EXTENDS Integers, Sequences, FiniteSets, TLC

(* ------------------------------ bounds -------------------------------- *)
\* largest credential pool of the concurrent specification
MaxKeys == 2
\* stands for TOTAL_PAGES_TO_FETCH (60 in the source): pages per invocation
MaxPages == 2
\* most items the search server returns over the pages of one invocation
MaxItems == 3
\* stands for chunkSize (50 in the source): identifiers per detail batch
MaxChunk == 2
\* longest input list of the filterAndSort specification
MaxVideos == 3

(* ----------------------- program constants ---------------------------- *)
MIN_LIKES == 20
FULL_CONFIDENCE_LIKES == 200
\* JavaScript NaN, the value of (currentKeyIndex + 1) % 0
NaN == -1
\* JavaScript null, the likePercent of a video without votes
Null == -1

TOTAL_PAGES_TO_FETCH == MaxPages
chunkSize == MaxChunk

\* the falsy identifier of an item that carries none
NoId == ""
\* the absent continuation token
NoToken == ""
\* url.searchParams.set("key", undefined) stores the string "undefined"
UndefinedKey == "undefined"
\* the environment may define VITE_YT_API_KEY_1 .. VITE_YT_API_KEY_11
KEY_SLOTS == 11
AllKeys == <<"k1", "k2", "k3", "k4", "k5", "k6", "k7", "k8", "k9", "k10", "k11">>
RotateReasons == {"quotaExceeded", "accessNotConfigured", "serviceDisabled"}

(* -------------------------- small helpers ----------------------------- *)
Min(a, b) == IF a <= b THEN a ELSE b

RECURSIVE SeqsUpTo(_, _)
\* all sequences over S of length 0..n
SeqsUpTo(S, n) ==
    IF n = 0 THEN {<<>>}
    ELSE LET shorter == SeqsUpTo(S, n - 1)
         IN  shorter \cup {Append(s, x) : s \in {t \in shorter : Len(t) = n - 1}, x \in S}

RECURSIVE SelectSeqBy(_, _)
\* Array.prototype.filter with the predicate given as the set of kept values
SelectSeqBy(s, keep) ==
    IF s = <<>> THEN <<>>
    ELSE IF Head(s) \in keep
         THEN <<Head(s)>> \o SelectSeqBy(Tail(s), keep)
         ELSE SelectSeqBy(Tail(s), keep)

Range(s) == {s[k] : k \in 1..Len(s)}

(* ------------------------ Key management ------------------------------ *)
\* a % n of JavaScript on the values the cursor takes
JsMod(a, n) == IF n = 0 \/ a = NaN THEN NaN ELSE a % n

\* API_KEYS[currentKeyIndex % API_KEYS.length]; an index that is NaN reads undefined
getCurrentKey(keys, idx) ==
    LET k == JsMod(idx, Len(keys))
    IN  IF k = NaN THEN UndefinedKey ELSE keys[k + 1]

rotateKeySkip(keys, idx) == JsMod(idx + 2, Len(keys))
rotateKeyNoWrap(keys, idx) == idx + 1

\* currentKeyIndex = (currentKeyIndex + 1) % API_KEYS.length
rotateKey(keys, idx) == JsMod(idx + 1, Len(keys))

maxRetriesPlusOne(keys) == (IF Len(keys) > 1 THEN Len(keys) ELSE 1) + 1

\* maxRetries = Math.max(1, API_KEYS.length)
maxRetries(keys) == IF Len(keys) > 1 THEN Len(keys) ELSE 1

(* --------------------------- Scoring ---------------------------------- *)
RECURSIVE ILog10(_)
\* log10 of a power of ten; the view counts of the model are all 10^k - 1
ILog10(n) == IF n < 10 THEN 0 ELSE 1 + ILog10(n \div 10)

RECURSIVE Fixed(_, _, _, _)
\* acc.r/d carried to k more decimal digits, the last one rounded half up
Fixed(acc, r, d, k) ==
    IF k = 0 THEN acc + (IF 2 * r >= d THEN 1 ELSE 0)
    ELSE Fixed(acc * 10 + (r * 10) \div d, (r * 10) % d, d, k - 1)

\* Number((num/den).toFixed(6)) in units of 1e-6
ToFixed6(num, den) == Fixed(num \div den, num % den, den, 6)

\* (likes / total) * 100, or null without votes; in units of 1e-3 percent
computeLikePercent(likes, dislikes) ==
    LET total == likes + dislikes
    IN  IF total = 0 THEN Null ELSE (likes * 100000) \div total

computeScorePenaltyOnLarge(likes, dislikes, views) ==
    LET rn == IF likes + dislikes > 0 THEN likes ELSE 1
        rd == IF likes + dislikes > 0 THEN likes + dislikes ELSE 2
        conf == Min(FULL_CONFIDENCE_LIKES, likes)
        lg == Min(6, ILog10(views + 1))
        pen == IF likes < 10 THEN 1 ELSE 2
        num == 42 * FULL_CONFIDENCE_LIKES * rn + 12 * conf * rd
                 + lg * FULL_CONFIDENCE_LIKES * rd
        den == 60 * FULL_CONFIDENCE_LIKES * rd * pen
    IN  ToFixed6(num, den)

computeScoreUncapped(likes, dislikes, views) ==
    LET rn == IF likes + dislikes > 0 THEN likes ELSE 1
        rd == IF likes + dislikes > 0 THEN likes + dislikes ELSE 2
        lg == Min(6, ILog10(views + 1))
        pen == IF likes < 10 THEN 2 ELSE 1
        num == 42 * FULL_CONFIDENCE_LIKES * rn + 12 * likes * rd
                 + lg * FULL_CONFIDENCE_LIKES * rd
        den == 60 * FULL_CONFIDENCE_LIKES * rd * pen
    IN  ToFixed6(num, den)

\* ratio*0.7 + confidence*0.2 + viewWeight*0.1, times smallPenalty, as the
\* exact fraction num/den with den = 60 * FULL_CONFIDENCE_LIKES * rd * pen
computeScore(likes, dislikes, views) ==
    LET rn == IF likes + dislikes > 0 THEN likes ELSE 1
        rd == IF likes + dislikes > 0 THEN likes + dislikes ELSE 2
        conf == Min(FULL_CONFIDENCE_LIKES, likes)
        lg == Min(6, ILog10(views + 1))
        pen == IF likes < 10 THEN 2 ELSE 1
        num == 42 * FULL_CONFIDENCE_LIKES * rn + 12 * conf * rd
                 + lg * FULL_CONFIDENCE_LIKES * rd
        den == 60 * FULL_CONFIDENCE_LIKES * rd * pen
    IN  ToFixed6(num, den)

(* ------------------------- Normalisation ------------------------------ *)
\* an absent vote record (the lookup threw) and an absent detail record
NoStats == [some |-> FALSE]
NoDetails == [some |-> FALSE]

normalizeVideoSwapped(item, stats, details) ==
    LET likes == IF stats.some THEN stats.dislikes ELSE 0
        dislikes == IF stats.some THEN stats.likes ELSE 0
        viewCount ==
            IF details.some /\ details.viewCount # 0 THEN details.viewCount
            ELSE IF stats.some THEN stats.viewCount ELSE 0
    IN  [videoId |-> item.id,
         title |-> item.title,
         publishedAt |-> item.publishedAt,
         viewCount |-> viewCount,
         likes |-> likes,
         dislikes |-> dislikes,
         likePercent |-> computeLikePercent(likes, dislikes),
         stats |-> stats,
         score |-> computeScore(likes, dislikes, viewCount)]

normalizeVideo(item, stats, details) ==
    LET likes == IF stats.some THEN stats.likes ELSE 0
        dislikes == IF stats.some THEN stats.dislikes ELSE 0
        viewCount ==
            IF details.some /\ details.viewCount # 0 THEN details.viewCount
            ELSE IF stats.some THEN stats.viewCount ELSE 0
        publishedAt ==
            IF details.some /\ details.publishedAt # "" THEN details.publishedAt
            ELSE item.publishedAt
    IN  [videoId |-> item.id,
         title |-> item.title,
         publishedAt |-> publishedAt,
         viewCount |-> viewCount,
         likes |-> likes,
         dislikes |-> dislikes,
         likePercent |-> computeLikePercent(likes, dislikes),
         stats |-> stats,
         score |-> computeScore(likes, dislikes, viewCount)]

(* ------------------------- filterAndSort ------------------------------ *)
RECURSIVE FilterLikesInverted(_, _)
FilterLikesInverted(videos, floor) ==
    IF videos = <<>> THEN <<>>
    ELSE IF Head(videos).likes < floor
         THEN <<Head(videos)>> \o FilterLikesInverted(Tail(videos), floor)
         ELSE FilterLikesInverted(Tail(videos), floor)

RECURSIVE FilterLikes(_, _)
\* videos.filter((v) => v.likes >= floor)
FilterLikes(videos, floor) ==
    IF videos = <<>> THEN <<>>
    ELSE IF Head(videos).likes >= floor
         THEN <<Head(videos)>> \o FilterLikes(Tail(videos), floor)
         ELSE FilterLikes(Tail(videos), floor)

RECURSIVE InsertByScore(_, _)
\* v placed behind every element whose score is not lower than its own
InsertByScore(v, sorted) ==
    IF sorted = <<>> THEN <<v>>
    ELSE IF Head(sorted).score >= v.score
         THEN <<Head(sorted)>> \o InsertByScore(v, Tail(sorted))
         ELSE <<v>> \o sorted

RECURSIVE InsertByScoreUnstable(_, _)
InsertByScoreUnstable(v, sorted) ==
    IF sorted = <<>> THEN <<v>>
    ELSE IF Head(sorted).score > v.score
         THEN <<Head(sorted)>> \o InsertByScoreUnstable(v, Tail(sorted))
         ELSE <<v>> \o sorted

RECURSIVE SortByScoreUnstable(_, _)
SortByScoreUnstable(videos, acc) ==
    IF videos = <<>> THEN acc
    ELSE SortByScoreUnstable(Tail(videos), InsertByScoreUnstable(Head(videos), acc))

RECURSIVE SortByScore(_, _)
\* Array.prototype.sort((a, b) => b.score - a.score): stable (ES2019)
SortByScore(videos, acc) ==
    IF videos = <<>> THEN acc
    ELSE SortByScore(Tail(videos), InsertByScore(Head(videos), acc))

filterAndSortNoFilter(videos) == SortByScore(videos, <<>>)
filterAndSortUnstable(videos) ==
    SortByScoreUnstable(FilterLikes(videos, MIN_LIKES), <<>>)

filterAndSort(videos) == SortByScore(FilterLikes(videos, MIN_LIKES), <<>>)

(* --------------------------- Dedup ------------------------------------ *)
RECURSIVE DedupFrom(_, _)
\* the filter of the page loop: drops items without identifier and items
\* whose identifier was seen before
DedupFrom(items, seen) ==
    IF items = <<>> THEN <<>>
    ELSE LET id == Head(items).id
         IN  IF id = NoId \/ id \in seen
             THEN DedupFrom(Tail(items), seen)
             ELSE <<Head(items)>> \o DedupFrom(Tail(items), seen \cup {id})

Dedup(items) == DedupFrom(items, {})

RECURSIVE UniqueIds(_, _)
\* Array.from(new Set(allResults.map(id).filter(Boolean)))
UniqueIds(items, seen) ==
    IF items = <<>> THEN <<>>
    ELSE LET id == Head(items).id
         IN  IF id = NoId \/ id \in seen
             THEN UniqueIds(Tail(items), seen)
             ELSE <<id>> \o UniqueIds(Tail(items), seen \cup {id})

(* ============================ state ================================== *)
VARIABLES
    API_KEYS,         \* the credential pool, fixed at module load
    currentKeyIndex,  \* the module-level key cursor
    loading,          \* the component's loading state
    container,        \* the results container of the page
    backup,           \* window.__yt_original_results__
    inv,              \* the handleClick invocations, by click order; the field
                      \* batches lists the id batches requested so far
    env,              \* what the servers may answer (fixed per behaviour)
    last,             \* the response handled by the latest step, if it handled one
    arg,              \* input of the pure-function specifications
    result            \* output of the pure-function specifications

vars == <<API_KEYS, currentKeyIndex, loading, container, backup, inv, env, last, arg, result>>

Pending == [st |-> "pending"]
NullSlot == [st |-> "null"]
NoBackup == <<"none">>
OriginalContent == <<"yt-original">>
NoLast == [kind |-> "none"]

\* an invocation that has not been started
IdleInv ==
    [pc |-> "idle", phase |-> "none", attempt |-> 0, reqKey |-> "", reqToken |-> NoToken,
     log |-> <<>>,
     page |-> 0, nextPageToken |-> NoToken, allResults |-> <<>>,
     ids |-> <<>>, chunk |-> 0, batches |-> <<>>, detailsMap |-> {},
     enriched |-> <<>>, finalList |-> <<>>, injectCalls |-> 0, error |-> "none"]

Invs == DOMAIN inv

(* ----------------------- youtubeFetch: one call ----------------------- *)
\* the invocation has run to its end: its locals are gone, what stays is what
\* it handed to the renderer (enriched, finalList) and how it ended
EndRun(s) ==
    [s EXCEPT !.pc = "done", !.phase = "none", !.attempt = 0, !.reqKey = "",
              !.reqToken = NoToken, !.log = <<>>, !.page = 0,
              !.nextPageToken = NoToken, !.allResults = <<>>, !.ids = <<>>,
              !.chunk = 0, !.batches = <<>>, !.detailsMap = {}]

ThrowInjects(s, err) == [EndRun(s) EXCEPT !.injectCalls = 1]

ThrowRetriesNetworkErrors(s, err) ==
    IF err \in {"reject", "badjson"}
    THEN [s EXCEPT !.pc = "cooldown",
                   !.log = Append(@, [key |-> s.reqKey, kind |-> err])]
    ELSE [EndRun(s) EXCEPT !.error = err, !.phase = s.phase]

\* an exception reaches the catch of handleClick; phase keeps the request
\* during which it was thrown
Throw(s, err) == [EndRun(s) EXCEPT !.error = err, !.phase = s.phase]

StartFetchNoToken(s, phase) ==
    IF 0 < maxRetries(API_KEYS)
    THEN [s EXCEPT !.pc = "fetch", !.phase = phase, !.attempt = 0, !.log = <<>>,
                   !.reqKey = getCurrentKey(API_KEYS, currentKeyIndex),
                   !.reqToken = NoToken]
    ELSE Throw(s, "exhausted")

\* the first attempt of a call: the key is read and the request is sent
StartFetch(s, phase) ==
    IF 0 < maxRetries(API_KEYS)
    THEN [s EXCEPT !.pc = "fetch", !.phase = phase, !.attempt = 0, !.log = <<>>,
                   !.reqKey = getCurrentKey(API_KEYS, currentKeyIndex),
                   !.reqToken = IF phase = "search" THEN s.nextPageToken ELSE NoToken]
    ELSE Throw(s, "exhausted")

\* the classification youtubeFetch makes of a parsed response
ResponseKind(resp) ==
    IF resp.reason \in RotateReasons THEN resp.reason
    ELSE IF ~resp.ok THEN "nonOK"
    ELSE "ok"

(* -------------------- handleClick: continuations ---------------------- *)
\* Promise.all has resolved: cleanList, filterAndSort, up to the call of
\* injectEnhancedResults
Finish(s) ==
    LET done == SelectSeq(s.enriched, LAMBDA e : e.st = "done")
        cleanList == [k \in 1..Len(done) |-> done[k].v]
    IN  [EndRun(s) EXCEPT !.finalList = filterAndSort(cleanList), !.injectCalls = 1]

\* allResults.map(async ...) : every item with an identifier starts a vote
\* lookup, the others resolve to null at once
StartVotes(s) ==
    LET slots == [k \in 1..Len(s.allResults) |->
                    IF s.allResults[k].id = NoId THEN NullSlot ELSE Pending]
        t == [s EXCEPT !.enriched = slots, !.pc = "votes"]
    IN  IF \E k \in 1..Len(slots) : slots[k].st = "pending" THEN t ELSE Finish(t)

ChunkWhole(s) == s.ids

\* ids.slice(i, i + chunkSize)
Chunk(s) == SubSeq(s.ids, s.chunk + 1, Min(Len(s.ids), s.chunk + chunkSize))

\* the batch loop of fetchVideoDetailsMap at its loop test: the next batch is
\* requested, or the map is returned
DetailsLoop(s) ==
    IF s.chunk < Len(s.ids)
    THEN StartFetch([s EXCEPT !.batches = Append(@, Chunk(s))], "details")
    ELSE StartVotes(s)

\* map.set(item.id, item) for every item of a batch response
PutAll(map, items) ==
    {d \in map : \A k \in 1..Len(items) : items[k].id # d.id} \cup Range(items)

AfterDetails(s, data) ==
    DetailsLoop([s EXCEPT !.detailsMap = IF data.hasItems THEN PutAll(@, data.items) ELSE @,
                          !.chunk = @ + chunkSize])

\* after the page loop: collect ids and fetch details
AfterLoop(s) ==
    DetailsLoop([s EXCEPT !.ids = UniqueIds(s.allResults, {}), !.chunk = 0,
                          !.batches = <<>>, !.detailsMap = {}])

\* the body of the page loop after youtubeFetch returned data
AfterSearch(s, data) ==
    IF ~data.hasItems THEN AfterLoop(s)
    ELSE LET all == s.allResults \o data.items
             tok == data.nextPageToken
         IN  IF tok = NoToken
             THEN AfterLoop([s EXCEPT !.allResults = all, !.nextPageToken = tok])
             ELSE LET t == [s EXCEPT !.allResults = Dedup(all), !.nextPageToken = tok,
                                     !.page = @ + 1]
                  IN  IF t.page < TOTAL_PAGES_TO_FETCH
                      THEN StartFetch(t, "search")
                      ELSE AfterLoop(t)

\* detailsMap.get(id)
DetailsOf(s, id) ==
    IF \E d \in s.detailsMap : d.id = id
    THEN CHOOSE d \in s.detailsMap : d.id = id
    ELSE NoDetails

(* ---------------------- injectEnhancedResults ------------------------- *)
\* formatDistanceToNow(new Date(video.publishedAt)) throws RangeError on a
\* date string that does not parse
RenderThrows(v) == v.publishedAt = "invalid"

\* renderVideoElement: the card of a video
renderVideoElement(v) == v.videoId

\* the container after injectEnhancedResults(videos)
InjectedContainer(cont, videos) ==
    IF ~cont.present THEN cont
    ELSE IF \E k \in 1..Len(videos) : RenderThrows(videos[k])
         THEN [cont EXCEPT !.content = <<>>]
         ELSE [cont EXCEPT !.content = [k \in 1..Len(videos) |-> renderVideoElement(videos[k])]]

\* window.__yt_original_results__ after injectEnhancedResults
InjectedBackup(cont, old) == IF cont.present THEN cont.content ELSE old

InjectThrows(cont, videos) ==
    cont.present /\ \E k \in 1..Len(videos) : RenderThrows(videos[k])

(* ------------------------- server answers ----------------------------- *)
NoData == [hasItems |-> FALSE, items |-> <<>>, nextPageToken |-> NoToken]

\* the bodies a successful search request may carry
SearchBodies(s) ==
    {NoData} \cup
    {[hasItems |-> TRUE, items |-> its, nextPageToken |-> tok] :
        its \in SeqsUpTo(env.items, env.maxItems - Len(s.allResults)),
        tok \in env.tokens \cup {NoToken}}

\* the bodies a successful detail request may carry: a record for any part of
\* the requested identifiers, in request order
DetailBodies(s) ==
    {NoData} \cup
    {[hasItems |-> TRUE,
      items |-> [k \in 1..Len(present) |->
                   [some |-> TRUE, id |-> present[k],
                    viewCount |-> f[present[k]].viewCount,
                    publishedAt |-> f[present[k]].publishedAt]],
      nextPageToken |-> NoToken] :
        present \in {SelectSeqBy(Chunk(s), S) : S \in SUBSET Range(Chunk(s))},
        f \in [Range(Chunk(s)) -> env.details]}

\* parsed responses that are not returned to the caller
ErrorResponses ==
    {[ok |-> FALSE, reason |-> r, data |-> NoData] : r \in env.reasons}
    \cup {[ok |-> FALSE, reason |-> "none", data |-> NoData]}

Responses(s) ==
    ErrorResponses \cup
    {[ok |-> TRUE, reason |-> "none", data |-> d] :
        d \in IF s.phase = "search" THEN SearchBodies(s) ELSE DetailBodies(s)}

(* ----------------------------- actions -------------------------------- *)
\* the call's locals go out of scope
EndCall(s) ==
    [s EXCEPT !.attempt = 0, !.reqKey = "", !.reqToken = NoToken, !.log = <<>>]

CompleteNoFinally(i, next) ==
    \E s \in {next} :
        /\ inv' = [inv EXCEPT ![i] = s]
        /\ UNCHANGED loading
        /\ IF s.pc = "done" /\ s.error = "none"
           THEN /\ container' = InjectedContainer(container, s.finalList)
                /\ backup' = InjectedBackup(container, backup)
           ELSE UNCHANGED <<container, backup>>

\* the invocation record becomes s, the value of next; when it has run to its end the list is
\* injected (unless it threw) and the finally block resets loading
Complete(i, next) ==
    \E s \in {next} :
        IF s.pc # "done"
        THEN /\ inv' = [inv EXCEPT ![i] = s]
             /\ UNCHANGED <<loading, container, backup>>
        ELSE /\ loading' = FALSE
             /\ IF s.error # "none"
                THEN /\ inv' = [inv EXCEPT ![i] = s]
                     /\ UNCHANGED <<container, backup>>
                ELSE /\ container' = InjectedContainer(container, s.finalList)
                     /\ backup' = InjectedBackup(container, backup)
                     /\ inv' = [inv EXCEPT ![i] =
                            IF InjectThrows(container, s.finalList)
                            THEN [s EXCEPT !.error = "render"] ELSE s]

\* the Enhance button is clicked: handleClick up to the first request
Click(i) ==
    /\ inv[i].pc = "idle"
    /\ IF i = 1 THEN TRUE ELSE inv[i - 1].pc # "idle"
    /\ LET s == StartFetch(IdleInv, "search")
       IN  /\ inv' = [inv EXCEPT ![i] = s]
           /\ loading' = (s.pc # "done")
    /\ last' = NoLast
    /\ UNCHANGED <<API_KEYS, currentKeyIndex, container, backup, env, arg, result>>

\* fetch rejected, or res.json() rejected
FetchFails(i) ==
    /\ inv[i].pc = "fetch"
    /\ \E kind \in {"reject", "badjson"} :
         /\ last' = [kind |-> kind, inv |-> i, key |-> inv[i].reqKey,
                     attempt |-> inv[i].attempt, ok |-> FALSE, reason |-> "none",
                     data |-> NoData, ret |-> NoData]
         /\ Complete(i, Throw(inv[i], kind))
    /\ UNCHANGED <<API_KEYS, currentKeyIndex, env, arg, result>>

\* what youtubeFetch returns for a response it accepts
ReturnValue(resp) == resp.data

\* one attempt of youtubeFetch gets its parsed response
FetchSettle(i) ==
    /\ inv[i].pc = "fetch"
    /\ \E resp \in Responses(inv[i]) :
         LET s == inv[i]
             kind == ResponseKind(resp)
             retry == [s EXCEPT !.pc = "cooldown",
                                !.log = Append(@, [key |-> s.reqKey, kind |-> kind])]
         IN  /\ last' = [kind |-> kind, inv |-> i, key |-> s.reqKey,
                         attempt |-> s.attempt, ok |-> resp.ok,
                         reason |-> resp.reason, data |-> resp.data,
                         ret |-> IF kind = "ok" THEN ReturnValue(resp) ELSE NoData]
             /\ IF kind \in RotateReasons
                THEN /\ currentKeyIndex' = rotateKey(API_KEYS, currentKeyIndex)
                     /\ Complete(i, retry)
                ELSE /\ UNCHANGED currentKeyIndex
                     /\ IF kind = "nonOK"
                        THEN Complete(i, retry)
                        ELSE IF s.phase = "search"
                             THEN Complete(i, AfterSearch(EndCall(s), ReturnValue(resp)))
                             ELSE Complete(i, AfterDetails(EndCall(s), ReturnValue(resp)))
    /\ UNCHANGED <<API_KEYS, env, arg, result>>

\* the 500 ms cooldown is over: the next attempt, or the exhausted-keys error
CooldownElapsed(i) ==
    /\ inv[i].pc = "cooldown"
    /\ last' = NoLast
    /\ LET s == [inv[i] EXCEPT !.attempt = @ + 1]
       IN  IF s.attempt < maxRetries(API_KEYS)
           THEN Complete(i, [s EXCEPT !.pc = "fetch",
                                      !.reqKey = getCurrentKey(API_KEYS, currentKeyIndex)])
           ELSE Complete(i, Throw(s, "exhausted"))
    /\ UNCHANGED <<API_KEYS, currentKeyIndex, env, arg, result>>

VoteOutcomeFirstWins(s, k, stats) ==
    LET item == s.allResults[k]
        v == normalizeVideo(item, stats, DetailsOf(s, item.id))
    IN  Finish([s EXCEPT !.enriched[k] = [st |-> "done", v |-> v]])

\* a rejected lookup that is not caught rejects Promise.all
VoteOutcomeNoCatch(s, k, stats) ==
    IF ~stats.some THEN Throw(s, "vote")
    ELSE LET item == s.allResults[k]
             v == normalizeVideo(item, stats, DetailsOf(s, item.id))
             t == [s EXCEPT !.enriched[k] = [st |-> "done", v |-> v]]
         IN  IF \E j \in 1..Len(t.enriched) : t.enriched[j].st = "pending"
             THEN t ELSE Finish(t)

\* the async callback of allResults.map for item k after its lookup settled:
\* try { normalizeVideo(item, ld, details) } catch { normalizeVideo(item,
\* undefined, details) }, and the code behind Promise.all once no lookup is
\* pending
VoteOutcome(s, k, stats) ==
    LET item == s.allResults[k]
        v == normalizeVideo(item, stats, DetailsOf(s, item.id))
        t == [s EXCEPT !.enriched[k] = [st |-> "done", v |-> v]]
    IN  IF \E j \in 1..Len(t.enriched) : t.enriched[j].st = "pending"
        THEN t ELSE Finish(t)

\* the vote lookup of item k settles: stats is the record, or NoStats when
\* fetchLikeAndDislikes threw
VoteSettle(i) ==
    /\ inv[i].pc = "votes"
    /\ last' = NoLast
    /\ \E k \in 1..Len(inv[i].enriched), stats \in env.votes \cup {NoStats} :
         /\ inv[i].enriched[k].st = "pending"
         /\ Complete(i, VoteOutcome(inv[i], k, stats))
    /\ UNCHANGED <<API_KEYS, currentKeyIndex, env, arg, result>>

Next ==
    \/ \E i \in Invs : Click(i)
    \/ \E i \in Invs : FetchFails(i)
    \/ \E i \in Invs : FetchSettle(i)
    \/ \E i \in Invs : CooldownElapsed(i)
    \/ \E i \in Invs : VoteSettle(i)

(* ------------------------- specifications ----------------------------- *)
ItemA == [id |-> "A", title |-> "a", publishedAt |-> "2024-02-27"]
ItemB == [id |-> "B", title |-> "b", publishedAt |-> "2024-02-27"]
ItemNoId == [id |-> NoId, title |-> "n", publishedAt |-> "2024-02-27"]
VoteHigh == [some |-> TRUE, likes |-> 30, dislikes |-> 10, viewCount |-> 999]
VoteLow == [some |-> TRUE, likes |-> 5, dislikes |-> 1, viewCount |-> 99]

\* the data pipeline of one invocation
PipelineEnv ==
    [items |-> {ItemA, ItemB, ItemNoId},
     maxItems |-> MaxItems,
     tokens |-> {"t1"},
     reasons |-> RotateReasons,
     votes |-> {VoteHigh, VoteLow},
     details |-> {[viewCount |-> 9999, publishedAt |-> ""]}]

InitPage ==
    /\ loading = FALSE
    /\ container = [present |-> TRUE, content |-> OriginalContent]
    /\ backup = NoBackup
    /\ last = NoLast

\* arg and result are used only where a function is run on its own
NoHarness ==
    /\ arg = <<>>
    /\ result = <<>>

Init ==
    /\ InitPage
    /\ NoHarness
    /\ API_KEYS \in {<<"k1">>, <<"k1", "k2">>}
    /\ currentKeyIndex = 0
    /\ inv = [i \in 1..1 |-> IdleInv]
    /\ env = PipelineEnv

Spec == Init /\ [][Next]_vars

\* two clicks whose invocations overlap and share the key cursor (the button
\* stays enabled while loading): pools of 0..MaxKeys keys, quotaExceeded as
\* the rotating reason, one search result
SharedEnv ==
    [items |-> {ItemA},
     maxItems |-> 1,
     tokens |-> {},
     reasons |-> {"quotaExceeded"},
     votes |-> {VoteHigh},
     details |-> {[viewCount |-> 9999, publishedAt |-> ""]}]

InitShared ==
    /\ InitPage
    /\ NoHarness
    /\ API_KEYS \in {SubSeq(AllKeys, 1, n) : n \in 0..MaxKeys}
    /\ currentKeyIndex = 0
    /\ inv = [i \in 1..2 |-> IdleInv]
    /\ env = SharedEnv

SpecShared == InitShared /\ [][Next]_vars

ItemC == [id |-> "C", title |-> "c", publishedAt |-> "2024-02-27"]

\* one page of search results over three identifiers
DistinctEnv ==
    [items |-> {ItemA, ItemB, ItemC},
     maxItems |-> MaxItems,
     tokens |-> {},
     reasons |-> {"quotaExceeded"},
     votes |-> {VoteHigh, VoteLow},
     details |-> {[viewCount |-> 9999, publishedAt |-> ""]}]

InitDistinct ==
    /\ InitPage
    /\ NoHarness
    /\ API_KEYS \in {<<"k1">>, <<"k1", "k2">>}
    /\ currentKeyIndex = 0
    /\ inv = [i \in 1..1 |-> IdleInv]
    /\ env = DistinctEnv

SpecDistinct == InitDistinct /\ [][Next]_vars

(* ---- filterAndSort as a pure function ---- *)
VoteTop == [some |-> TRUE, likes |-> 200, dislikes |-> 0, viewCount |-> 999999]
SortVotes == {NoStats, VoteLow, VoteHigh, VoteTop}
SortIds == <<"v1", "v2", "v3", "v4", "v5", "v6">>
SortItem(k) == [id |-> SortIds[k], title |-> "t", publishedAt |-> "2024-02-27"]

\* lists of normalized videos, the k-th with identifier SortIds[k]
SortInputs ==
    UNION {{[k \in 1..n |-> normalizeVideo(SortItem(k), f[k], NoDetails)] :
               f \in [1..n -> SortVotes]} : n \in 0..MaxVideos}

InitSort ==
    /\ InitPage
    /\ API_KEYS = <<>>
    /\ currentKeyIndex = 0
    /\ inv = <<>>
    /\ env = PipelineEnv
    /\ arg \in SortInputs
    /\ result = [done |-> FALSE]

ApplyFilterAndSort ==
    /\ ~result.done
    /\ result' = [done |-> TRUE, out |-> filterAndSort(arg)]
    /\ UNCHANGED <<API_KEYS, currentKeyIndex, loading, container, backup, inv, env, last, arg>>

SpecSort == InitSort /\ [][ApplyFilterAndSort]_vars

(* ---- rotateKey / getCurrentKey on their own ---- *)
\* any pool the environment can define, any cursor rotateKey can leave
InitRotate ==
    /\ InitPage
    /\ API_KEYS \in {SubSeq(AllKeys, 1, n) : n \in 1..KEY_SLOTS}
    /\ currentKeyIndex \in 0..(Len(API_KEYS) - 1)
    /\ arg = currentKeyIndex
    /\ result = 0
    /\ inv = <<>>
    /\ env = PipelineEnv

\* one call of rotateKey; result counts the calls, at most pool size
CallRotateKey ==
    /\ result < Len(API_KEYS)
    /\ currentKeyIndex' = rotateKey(API_KEYS, currentKeyIndex)
    /\ result' = result + 1
    /\ UNCHANGED <<API_KEYS, loading, container, backup, inv, env, last, arg>>

SpecRotate == InitRotate /\ [][CallRotateKey]_vars

(* ---- a search item whose date does not parse ---- *)
ItemBadDate == [id |-> "D", title |-> "d", publishedAt |-> "invalid"]

\* one page over a well-formed item and one whose publishedAt is not a date
RenderEnv ==
    [items |-> {ItemA, ItemBadDate},
     maxItems |-> MaxItems,
     tokens |-> {},
     reasons |-> {"quotaExceeded"},
     votes |-> {VoteHigh, VoteLow},
     details |-> {[viewCount |-> 9999, publishedAt |-> ""]}]

InitRender ==
    /\ InitPage
    /\ NoHarness
    /\ API_KEYS \in {<<"k1">>, <<"k1", "k2">>}
    /\ currentKeyIndex = 0
    /\ inv = [i \in 1..1 |-> IdleInv]
    /\ env = RenderEnv

SpecRender == InitRender /\ [][Next]_vars

(* ---- the page loop with distinguishable continuation tokens ---- *)
PagesEnv ==
    [items |-> {ItemA, ItemB},
     maxItems |-> MaxItems - 1,
     tokens |-> {"t1", "t2"},
     reasons |-> {"quotaExceeded"},
     votes |-> {VoteHigh},
     details |-> {[viewCount |-> 9999, publishedAt |-> ""]}]

InitPages ==
    /\ InitPage
    /\ NoHarness
    /\ API_KEYS \in {<<"k1">>, <<"k1", "k2">>}
    /\ currentKeyIndex = 0
    /\ inv = [i \in 1..1 |-> IdleInv]
    /\ env = PagesEnv

SpecPages == InitPages /\ [][Next]_vars

(* ---- every request settles and every timer fires ---- *)
\* some request in flight is answered or fails, some cooldown timer fires or
\* some pending vote lookup settles; the user is free never to click.  An
\* invocation takes finitely many steps, so none can be passed over for ever.
Settle ==
    \E i \in Invs :
        FetchSettle(i) \/ FetchFails(i) \/ CooldownElapsed(i) \/ VoteSettle(i)

Settles == WF_vars(Settle)

\* one invocation, up to TOTAL_PAGES_TO_FETCH pages of one item, any pool of
\* 0..MaxKeys keys
LiveEnv ==
    [items |-> {ItemA},
     maxItems |-> 1,
     tokens |-> {"t1"},
     reasons |-> {"quotaExceeded"},
     votes |-> {VoteHigh},
     details |-> {[viewCount |-> 9999, publishedAt |-> ""]}]

InitLive ==
    /\ InitPage
    /\ NoHarness
    /\ API_KEYS \in {SubSeq(AllKeys, 1, n) : n \in 0..MaxKeys}
    /\ currentKeyIndex = 0
    /\ inv = [i \in 1..1 |-> IdleInv]
    /\ env = LiveEnv

SpecLive == InitLive /\ [][Next]_vars /\ Settles

(* ---- computeScore as a pure function ---- *)
\* likes up to one past FULL_CONFIDENCE_LIKES and one large count; dislike
\* counts; view counts 10^k - 1 up to one past the cap of viewWeight
ScoreLikes == 0..(FULL_CONFIDENCE_LIKES + 1) \cup {5000}
ScoreDislikes == {0, 1, 10, 500}
ScoreViews == {0, 9, 999, 999999, 9999999}

InitScore ==
    /\ InitPage
    /\ API_KEYS = <<>>
    /\ currentKeyIndex = 0
    /\ inv = <<>>
    /\ env = PipelineEnv
    /\ arg \in [likes : ScoreLikes, dislikes : ScoreDislikes, views : ScoreViews]
    /\ result = [done |-> FALSE]

\* computeScore of the video and of the same video with one more like
ApplyComputeScore ==
    /\ ~result.done
    /\ result' = [done |-> TRUE,
                  score |-> computeScore(arg.likes, arg.dislikes, arg.views),
                  next |-> computeScore(arg.likes + 1, arg.dislikes, arg.views)]
    /\ UNCHANGED <<API_KEYS, currentKeyIndex, loading, container, backup, inv, env, last, arg>>

SpecScore == InitScore /\ [][ApplyComputeScore]_vars

(* ---- the component's URL state and the Enhance button ---- *)
\* searchParams.get("search_query") of a URL that has no such parameter (null)
AbsentQuery == "(absent)"

\* the locations the page moves between: [path, query]
Locations ==
    {[path |-> p, query |-> q] :
        p \in {"/results", "/watch"}, q \in {"cats", "", AbsentQuery}}

\* a string that is truthy in JavaScript
Truthy(q) == q # "" /\ q # AbsentQuery

shouldShowButtonAnyPath(st) == Truthy(st.searchQuery)

\* path === "/results" && searchQuery
shouldShowButton(st) == st.currentUrl.path = "/results" /\ Truthy(st.searchQuery)

\* setCurrentUrl(url); setSearchQuery(new URL(url).searchParams.get(...))
updateUrlState(st, location) ==
    [st EXCEPT !.currentUrl = location, !.searchQuery = location.query]

\* the location changes (a link, history.pushState, back); the events follow
Navigate ==
    /\ arg' \in Locations \ {arg}
    /\ last' = NoLast
    /\ UNCHANGED <<API_KEYS, currentKeyIndex, loading, container, backup, inv, env, result>>

\* the effect of the first render: the listeners are added and
\* updateUrlState runs once
MountEffect ==
    /\ ~result.listening
    /\ result' = [updateUrlState(result, arg) EXCEPT !.listening = TRUE]
    /\ last' = NoLast
    /\ UNCHANGED <<API_KEYS, currentKeyIndex, loading, container, backup, inv, env, arg>>

\* yt-navigate-finish or popstate is dispatched
UrlEvent ==
    /\ result.listening
    /\ result' = updateUrlState(result, arg)
    /\ last' = NoLast
    /\ UNCHANGED <<API_KEYS, currentKeyIndex, loading, container, backup, inv, env, arg>>

\* handleClick: if (!searchQuery) return; otherwise the pipeline starts
HandleClick(i) ==
    IF Truthy(result.searchQuery) THEN Click(i) ELSE UNCHANGED vars

\* the rendered button is clicked
ButtonClick(i) ==
    /\ shouldShowButton(result)
    /\ HandleClick(i)

\* handleClick run on a component that holds no query
HandleClickWithoutQuery(i) ==
    /\ ~Truthy(result.searchQuery)
    /\ HandleClick(i)

NextUrl ==
    \/ Navigate
    \/ MountEffect
    \/ UrlEvent
    \/ \E i \in Invs : ButtonClick(i)
    \/ \E i \in Invs : HandleClickWithoutQuery(i)
    \/ \E i \in Invs : FetchFails(i)
    \/ \E i \in Invs : FetchSettle(i)
    \/ \E i \in Invs : CooldownElapsed(i)
    \/ \E i \in Invs : VoteSettle(i)

\* useState(null), useState(window.location.href), effect not yet run
InitUrl ==
    /\ InitPage
    /\ API_KEYS = <<"k1">>
    /\ currentKeyIndex = 0
    /\ inv = [i \in 1..1 |-> IdleInv]
    /\ env = SharedEnv
    /\ arg \in Locations
    /\ result = [currentUrl |-> arg, searchQuery |-> AbsentQuery, listening |-> FALSE]

SpecUrl == InitUrl /\ [][NextUrl]_vars

(* ---- the in-loop deduplication applied to raw search items ---- *)
\* the id field of a raw search item: absent, an object with a videoId, or
\* an object without one (a channel or playlist resource)
RawIdKinds == {"A", "B", "absent", "object"}

Titles == <<"t1", "t2", "t3", "t4", "t5">>

\* item.id?.videoId || item.id ; an object is truthy and equal only to itself
ItemId(kind, k) ==
    CASE kind = "absent" -> NoId
      [] kind = "object" -> Titles[k] \o "#id-object"
      [] OTHER -> kind

\* the k-th item that arrived, with the identifier the filter reads off it
RawItem(kind, k) ==
    [id |-> ItemId(kind, k), title |-> Titles[k], publishedAt |-> "2024-02-27"]

DedupInputs ==
    UNION {[1..n -> RawIdKinds] : n \in 0..MaxVideos}

InitDedup ==
    /\ InitPage
    /\ API_KEYS = <<>>
    /\ currentKeyIndex = 0
    /\ inv = <<>>
    /\ env = PipelineEnv
    /\ arg \in DedupInputs
    /\ result = [done |-> FALSE]

\* allResults = allResults.filter(...)
ApplyDedup ==
    /\ ~result.done
    /\ result' = [done |-> TRUE,
                  out |-> Dedup([k \in 1..Len(arg) |-> RawItem(arg[k], k)])]
    /\ UNCHANGED <<API_KEYS, currentKeyIndex, loading, container, backup, inv, env, last, arg>>

SpecDedup == InitDedup /\ [][ApplyDedup]_vars

(* ---- content.tsx: mounting the React app next to the search box ---- *)
MaxMounts == 4

\* a React root created by createRoot(root).render(...): whether its host
\* element is still in the document and whether its effect has run
NewRoot == [attached |-> TRUE, listening |-> FALSE]

\* mountReactApp() on the document dom with the React roots created so far
mountReactApp(dom, roots) ==
    IF dom.rootInDom > 0 THEN <<dom, roots>>
    ELSE IF ~dom.searchBox THEN <<dom, roots>>
    ELSE <<[dom EXCEPT !.rootInDom = @ + 1, !.pending = TRUE], Append(roots, NewRoot)>>

\* the page outside the extension
PageOnly ==
    /\ InitPage
    /\ API_KEYS = <<>>
    /\ currentKeyIndex = 0
    /\ inv = <<>>
    /\ env = PipelineEnv

\* the content script has run: the observer is connected, nothing is mounted
InitMount ==
    /\ PageOnly
    /\ arg \in {[searchBox |-> b, rootInDom |-> 0, pending |-> FALSE] : b \in BOOLEAN}
    /\ result = <<>>

\* YouTube re-renders the masthead: the filled search box appears or goes,
\* and the element inserted after it stays or is dropped with the old subtree
YtRerender ==
    /\ \E box \in BOOLEAN, keep \in BOOLEAN :
         /\ keep \/ arg.rootInDom = 0 \/ Len(result) < MaxMounts
         /\ arg' = [searchBox |-> box,
                    rootInDom |-> IF keep THEN arg.rootInDom ELSE 0,
                    pending |-> TRUE]
         /\ result' = [k \in 1..Len(result) |->
                          [result[k] EXCEPT !.attached = @ /\ keep]]
    /\ UNCHANGED <<API_KEYS, currentKeyIndex, loading, container, backup, inv, env, last>>

\* the MutationObserver callback
MutationCallback ==
    /\ arg.pending
    /\ LET dom == [arg EXCEPT !.pending = FALSE]
           m == IF dom.searchBox /\ dom.rootInDom = 0
                THEN mountReactApp(dom, result) ELSE <<dom, result>>
       IN  /\ arg' = m[1]
           /\ result' = m[2]
    /\ UNCHANGED <<API_KEYS, currentKeyIndex, loading, container, backup, inv, env, last>>

\* yt-navigate-finish: the listener of content.tsx
NavigateFinish ==
    /\ LET m == mountReactApp(arg, result)
       IN  /\ arg' = m[1]
           /\ result' = m[2]
    /\ UNCHANGED <<API_KEYS, currentKeyIndex, loading, container, backup, inv, env, last>>

\* React renders a created root and runs the effect of ContentPage, which
\* adds its listeners to window
RootEffect ==
    /\ \E k \in 1..Len(result) :
         /\ ~result[k].listening
         /\ result' = [result EXCEPT ![k].listening = TRUE]
    /\ UNCHANGED <<API_KEYS, currentKeyIndex, loading, container, backup, inv, env, last, arg>>

NextMount ==
    \/ YtRerender
    \/ MutationCallback
    \/ NavigateFinish
    \/ RootEffect

SpecMount == InitMount /\ [][NextMount]_vars

(* ============================== claims ================================ *)
NoDuplicateIds(list) ==
    \A p, q \in 1..Len(list) : p < q => list[p].videoId # list[q].videoId

\* C1: the list handed to injectEnhancedResults contains each video
\* identifier at most once, whatever duplicates the search pages contained.
C1_InjectedIdsUnique ==
    \A i \in Invs : inv[i].injectCalls = 1 => NoDuplicateIds(inv[i].finalList)

\* C2: the list handed to the renderer never contains a video whose likes are
\* below MIN_LIKES.
C2_NoLowLikesInjected ==
    \A i \in Invs : \A p \in 1..Len(inv[i].finalList) :
        inv[i].finalList[p].likes >= MIN_LIKES

\* a list was injected from which the filter removed a video with few likes
C2_Witness ==
    \E i \in Invs :
        /\ inv[i].injectCalls = 1
        /\ Len(inv[i].finalList) >= 1
        /\ \E k \in 1..Len(inv[i].enriched) :
              /\ inv[i].enriched[k].st = "done"
              /\ inv[i].enriched[k].v.likes > 0
              /\ inv[i].enriched[k].v.likes < MIN_LIKES

\* position in the input list of the video with identifier id
ArgPos(id) == CHOOSE k \in 1..Len(arg) : arg[k].videoId = id

\* C3: filterAndSort returns the retained videos (likes >= MIN_LIKES) in
\* non-increasing score order, and two retained videos of equal score keep the
\* relative order they had in the input.
C3_SortedAndStable ==
    result.done =>
        /\ Range(result.out) = {v \in Range(arg) : v.likes >= MIN_LIKES}
        /\ Len(result.out) = Cardinality({v \in Range(arg) : v.likes >= MIN_LIKES})
        /\ \A p, q \in 1..Len(result.out) :
              p < q =>
                /\ result.out[p].score >= result.out[q].score
                /\ result.out[p].score = result.out[q].score =>
                      ArgPos(result.out[p].videoId) < ArgPos(result.out[q].videoId)

\* the sort moved a video over two of equal score, and dropped none of three
C3_Witness ==
    /\ result.done
    /\ Len(result.out) = 3
    /\ result.out # arg
    /\ result.out[1].score > result.out[2].score
    /\ result.out[2].score = result.out[3].score

\* C4: currentKeyIndex changes only in a step of youtubeFetch that handled a
\* response whose body carries reason quotaExceeded, accessNotConfigured or
\* serviceDisabled, and then by one position mod pool size; a non-OK response
\* without such a reason, a returned response and every other operation leave
\* it unchanged.
C4_CursorMovesOnlyOnQuotaReasons ==
    [][ IF last'.kind \in {"none", "reject", "badjson"}
        THEN currentKeyIndex' = currentKeyIndex
        ELSE IF last'.reason \in {"quotaExceeded", "accessNotConfigured", "serviceDisabled"}
             THEN currentKeyIndex' = (currentKeyIndex + 1) % Len(API_KEYS)
             ELSE currentKeyIndex' = currentKeyIndex ]_vars

\* a serviceDisabled answer has moved the cursor of a two-key pool to 1
C4_Witness ==
    /\ last.kind = "serviceDisabled"
    /\ Len(API_KEYS) = 2
    /\ currentKeyIndex = 1

C5_MaxAttempts == IF Len(API_KEYS) > 1 THEN Len(API_KEYS) ELSE 1
RetryKinds == RotateReasons \cup {"nonOK"}
AllRetried(log) == \A k \in 1..Len(log) : log[k].kind \in RetryKinds

\* C5: one call of youtubeFetch issues at most max(1, number of keys)
\* requests; it returns the body of the first response that is OK and carries
\* no quota/not-enabled reason; it fails with the exhausted-keys error exactly
\* when max(1, number of keys) attempts ended in such a reason or a non-OK
\* status.
C5_RetryContract ==
    [][ \A i \in Invs :
          /\ inv'[i].pc \in {"fetch", "cooldown"} =>
                inv'[i].attempt + 1 <= C5_MaxAttempts
          /\ (last'.kind \notin {"none", "reject", "badjson"} /\ last'.inv = i) =>
                /\ inv[i].pc = "fetch"
                /\ Len(inv[i].log) = last'.attempt
                /\ AllRetried(inv[i].log)
                /\ IF last'.ok /\ last'.reason \notin RotateReasons
                   THEN /\ inv'[i].pc # "cooldown"
                        /\ inv'[i].error \in {"none", "render"}
                        /\ last'.ret = last'.data
                   ELSE inv'[i].pc = "cooldown"
          /\ (inv'[i].error = "exhausted" /\ inv[i].error # "exhausted") =>
                /\ inv[i].pc = "cooldown"
                /\ Len(inv[i].log) = C5_MaxAttempts
                /\ AllRetried(inv[i].log)
          /\ (inv[i].pc = "cooldown" /\ Len(inv[i].log) = C5_MaxAttempts
                /\ inv'[i] # inv[i]) =>
                inv'[i].error = "exhausted" ]_vars

\* with two keys, one call ran out of attempts while the other returned
C5_Witness ==
    /\ Len(API_KEYS) = 2
    /\ inv[1].error = "exhausted"
    /\ last.kind = "ok"
    /\ last.inv = 2
    /\ last.attempt = 1

\* C6: with an empty credential pool obtaining the credential fails, so no
\* request is issued with a missing key and no retry is attempted.
C6_EmptyPoolSendsNothing ==
    Len(API_KEYS) = 0 =>
        \A i \in Invs : /\ inv[i].pc \in {"idle", "done"}
                        /\ inv[i].reqKey # UndefinedKey

\* C7: for a non-empty pool of N keys and any starting cursor, N calls of
\* rotateKey make getCurrentKey return the key it returned before them, and
\* after every rotateKey the cursor lies in 0..N-1.
C7_RotateCycle ==
    /\ result = Len(API_KEYS) =>
          getCurrentKey(API_KEYS, currentKeyIndex) = API_KEYS[arg + 1]
    /\ result > 0 => currentKeyIndex \in 0..(Len(API_KEYS) - 1)

\* five keys, started at the third, rotated five times
C7_Witness ==
    /\ Len(API_KEYS) = 5
    /\ arg = 2
    /\ result = 5

KeyIndex(k) == CHOOSE n \in 1..Len(API_KEYS) : API_KEYS[n] = k
NextKey(k) == API_KEYS[(KeyIndex(k) % Len(API_KEYS)) + 1]

\* C8: with at least two keys, if the first attempt of a call gets
\* quotaExceeded and the second attempt succeeds, the second attempt used the
\* next key of the pool, the call ran rotateKey once, and the call returns the
\* body of the second response.
C8_SecondAttemptUsesNextKey ==
    [][ (/\ last'.kind = "ok"
         /\ Len(API_KEYS) >= 2
         /\ last'.attempt = 1
         /\ inv[last'.inv].log[1].kind = "quotaExceeded") =>
            /\ last'.key = NextKey(inv[last'.inv].log[1].key)
            /\ Cardinality({k \in 1..Len(inv[last'.inv].log) :
                    inv[last'.inv].log[k].kind \in RotateReasons}) = 1
            /\ last'.ret = last'.data ]_vars

\* the record of a settled slot carries the votes of its own lookup, or zeros
\* when the lookup threw
OwnVotes(v) ==
    IF v.stats.some
    THEN v.likes = v.stats.likes /\ v.dislikes = v.stats.dislikes
    ELSE v.likes = 0 /\ v.dislikes = 0

\* C9: a vote lookup that rejects never aborts the invocation: the invocation
\* still reaches filterAndSort and injection, the failed item is normalized
\* with likes = 0 and dislikes = 0, and the records of the other items are
\* what their own lookups gave, untouched by the failure.
C9_VoteFailureIsolated ==
    [][ \A i \in Invs :
          inv[i].pc = "votes" =>
            /\ inv'[i].pc \in {"votes", "done"}
            /\ inv'[i].error = "none"
            /\ Len(inv'[i].enriched) = Len(inv[i].allResults)
            /\ \A k \in 1..Len(inv[i].enriched) :
                  /\ inv[i].enriched[k].st # "pending" =>
                        inv'[i].enriched[k] = inv[i].enriched[k]
                  /\ inv'[i].enriched[k].st = "done" =>
                        /\ inv'[i].enriched[k].v.videoId = inv[i].allResults[k].id
                        /\ OwnVotes(inv'[i].enriched[k].v)
            /\ inv'[i].pc = "done" =>
                  /\ inv'[i].injectCalls = 1
                  /\ Len(container'.content) = Len(inv'[i].finalList)
                  /\ \A p \in 1..Len(inv'[i].finalList) :
                        /\ container'.content[p] = inv'[i].finalList[p].videoId
                        /\ \E k \in 1..Len(inv'[i].enriched) :
                              /\ inv'[i].enriched[k].st = "done"
                              /\ inv'[i].enriched[k].v = inv'[i].finalList[p] ]_vars

\* an invocation injected a video although the lookup of a sibling threw
C9_Witness ==
    \E i \in Invs :
        /\ inv[i].pc = "done"
        /\ inv[i].injectCalls = 1
        /\ Len(inv[i].finalList) >= 1
        /\ container.content = <<inv[i].finalList[1].videoId>>
        /\ \E k \in 1..Len(inv[i].enriched) :
              /\ inv[i].enriched[k].st = "done"
              /\ ~inv[i].enriched[k].v.stats.some

FailedSlots(s) ==
    {k \in 1..Len(s.enriched) : s.enriched[k].st = "done" /\ ~s.enriched[k].v.stats.some}
SettledSlots(s) ==
    {k \in 1..Len(s.enriched) : s.enriched[k].st = "done"}

\* three search items went through the pipeline and one vote lookup threw
OneOfThreeFailed(s) ==
    /\ s.pc = "done"
    /\ s.injectCalls = 1
    /\ Len(s.enriched) = 3
    /\ Cardinality(SettledSlots(s)) = 3
    /\ Cardinality(FailedSlots(s)) = 1

OthersUnaffected(s) ==
    \A k \in SettledSlots(s) \ FailedSlots(s) :
        /\ OwnVotes(s.enriched[k].v)
        /\ s.enriched[k].v.likes >= MIN_LIKES =>
              \E p \in 1..Len(s.finalList) : s.finalList[p] = s.enriched[k].v

\* C10 as stated: when the vote lookup throws for one of three search items,
\* that item appears in the output of the pipeline with likes = 0,
\* dislikes = 0 and likePercent = null, and the other two are unaffected.
C10_FailedItemInOutput ==
    \A i \in Invs :
        OneOfThreeFailed(inv[i]) =>
            /\ \A k \in FailedSlots(inv[i]) :
                  /\ inv[i].enriched[k].v.likes = 0
                  /\ inv[i].enriched[k].v.dislikes = 0
                  /\ inv[i].enriched[k].v.likePercent = Null
                  /\ \E p \in 1..Len(inv[i].finalList) :
                        inv[i].finalList[p] = inv[i].enriched[k].v
            /\ OthersUnaffected(inv[i])

\* C10 amended: the item whose lookup threw is normalized with likes = 0,
\* dislikes = 0 and likePercent = null and filterAndSort then removes it
\* (0 < MIN_LIKES), so it is not in the list handed to the renderer; the other
\* two are unaffected.
C10_FailedItemNormalizedThenFiltered ==
    \A i \in Invs :
        OneOfThreeFailed(inv[i]) =>
            /\ \A k \in FailedSlots(inv[i]) :
                  /\ inv[i].enriched[k].v.likes = 0
                  /\ inv[i].enriched[k].v.dislikes = 0
                  /\ inv[i].enriched[k].v.likePercent = Null
                  /\ \A p \in 1..Len(inv[i].finalList) :
                        inv[i].finalList[p] # inv[i].enriched[k].v
            /\ OthersUnaffected(inv[i])

\* items A, B, C: the lookup of B threw, A and C were injected
C10_Witness ==
    /\ OneOfThreeFailed(inv[1])
    /\ inv[1].enriched[1].v.videoId = "A"
    /\ inv[1].enriched[2].v.videoId = "B"
    /\ inv[1].enriched[3].v.videoId = "C"
    /\ FailedSlots(inv[1]) = {2}
    /\ Len(inv[1].finalList) = 2

\* C11: when youtubeFetch runs out of attempts during a search page request or
\* a detail batch request, the invocation ends without calling
\* injectEnhancedResults, the results container is not touched (no step of an
\* invocation that has not injected changes it) and loading is set to false.
C11_ExhaustedLeavesPage ==
    [][ \A i \in Invs :
          /\ (inv'[i] # inv[i] /\ inv'[i].injectCalls = 0) => container' = container
          /\ (inv[i].pc = "cooldown" /\ Len(inv[i].log) = C5_MaxAttempts
                /\ inv'[i] # inv[i]) =>
                /\ inv'[i].pc = "done"
                /\ inv'[i].error = "exhausted"
                /\ inv'[i].injectCalls = 0
                /\ inv'[i].finalList = <<>>
                /\ container' = container
                /\ loading' = FALSE ]_vars

\* a detail batch request ran out of attempts; the page is as before the click
C11_Witness ==
    /\ inv[1].pc = "done"
    /\ inv[1].error = "exhausted"
    /\ inv[1].phase = "details"
    /\ inv[1].injectCalls = 0
    /\ container.content = OriginalContent
    /\ loading = FALSE

\* the cards of a list of videos
Cards(videos) == [k \in 1..Len(videos) |-> renderVideoElement(videos[k])]

\* C12: in every reachable state the results container holds either its
\* complete prior content or the complete list of rendered cards of an
\* invocation that called injectEnhancedResults; a card that fails to render
\* leaves the prior content in place.
C12_ContainerAtomic ==
    \/ container.content = OriginalContent
    \/ \E i \in Invs :
          /\ inv[i].injectCalls = 1
          /\ inv[i].error = "none"
          /\ container.content = Cards(inv[i].finalList)

\* invocation i handles, in this step, a search response that youtubeFetch
\* returns to the page loop
SearchPageReturned(i) ==
    /\ last'.kind = "ok"
    /\ last'.inv = i
    /\ inv[i].phase = "search"

\* invocation i has a search request in flight after this step
SearchRequestSent(i) ==
    /\ inv'[i].pc = "fetch"
    /\ inv'[i].phase = "search"

\* C13: search pages are fetched one after another: a page request is sent
\* only by the click or by the step that handled the preceding page or a retry
\* of the same request, at most TOTAL_PAGES_TO_FETCH page requests succeed per
\* invocation, the first carries no pageToken and each later one carries the
\* nextPageToken of the page response just before it.
C13_PagesSequentialWithTokens ==
    [][ \A i \in Invs :
          /\ (inv[i].pc = "idle" /\ SearchRequestSent(i)) =>
                /\ inv'[i].page = 0
                /\ inv'[i].reqToken = NoToken
          /\ SearchPageReturned(i) =>
                /\ inv[i].page < TOTAL_PAGES_TO_FETCH
                /\ inv[i].page = 0 <=> inv[i].reqToken = NoToken
                /\ SearchRequestSent(i) =>
                      /\ inv'[i].page = inv[i].page + 1
                      /\ last'.data.nextPageToken # NoToken
                      /\ inv'[i].reqToken = last'.data.nextPageToken
          /\ (SearchRequestSent(i) /\ inv'[i] # inv[i]) =>
                \/ inv[i].pc = "idle"
                \/ SearchPageReturned(i)
                \/ /\ inv[i].pc = "cooldown"
                   /\ inv[i].phase = "search"
                   /\ inv'[i].reqToken = inv[i].reqToken
                   /\ inv'[i].page = inv[i].page ]_vars

\* the last allowed page request is in flight with the token "t2" that the
\* page before it returned
C13_Witness ==
    /\ inv[1].pc = "fetch"
    /\ inv[1].phase = "search"
    /\ inv[1].page = TOTAL_PAGES_TO_FETCH - 1
    /\ inv[1].reqToken = "t2"
    /\ Len(inv[1].allResults) >= 1

\* C14: the page loop issues no further search request after a page response
\* that carries no continuation token or that returns no items (an absent or
\* an empty items list).
C14_NoRequestAfterLastPage ==
    [][ \A i \in Invs :
          (/\ SearchPageReturned(i)
           /\ \/ last'.data.nextPageToken = NoToken
              \/ ~last'.data.hasItems
              \/ last'.data.items = <<>>) =>
                ~SearchRequestSent(i) ]_vars

RECURSIVE Flatten(_)
\* the batches laid end to end
Flatten(bs) == IF bs = <<>> THEN <<>> ELSE Head(bs) \o Flatten(Tail(bs))

CeilDiv(n, c) == (n + c - 1) \div c

\* the identifiers the returned map has an entry for
MapIds(s) == {d.id : d \in s.detailsMap}

\* C15: fetchVideoDetailsMap requests the identifiers in consecutive batches
\* of at most chunkSize, one youtubeFetch call per batch (ceil(n/chunkSize)
\* calls, and no request when n = 0), every identifier in exactly one batch;
\* a batch response that lacks an identifier leaves it out of the map and the
\* invocation goes on.
C15_DetailBatches ==
    [][ \A i \in Invs :
          LET s == inv[i]
              t == inv'[i]
          IN  /\ (t.phase = "details" /\ t.pc \in {"fetch", "cooldown", "votes"}) =>
                    /\ Len(t.ids) > 0
                    /\ \A b \in 1..Len(t.batches) :
                          Len(t.batches[b]) \in 1..chunkSize
                    /\ Flatten(t.batches) = SubSeq(t.ids, 1, Len(Flatten(t.batches)))
                    /\ \A p, q \in 1..Len(t.ids) : p < q => t.ids[p] # t.ids[q]
                    /\ MapIds(t) \subseteq Range(Flatten(t.batches))
                    /\ t.pc \in {"fetch", "cooldown"} =>
                          /\ Len(t.batches) <= CeilDiv(Len(t.ids), chunkSize)
                          /\ t.batches[Len(t.batches)] = Chunk(t)
                    /\ t.pc = "votes" =>
                          /\ Flatten(t.batches) = t.ids
                          /\ Len(t.batches) = CeilDiv(Len(t.ids), chunkSize)
              /\ (t.batches # s.batches /\ t.batches # <<>>) =>
                    /\ t.batches = Append(IF s.phase = "search" THEN <<>> ELSE s.batches,
                                          Chunk(t))
                    /\ t.pc = "fetch" /\ t.phase = "details" /\ t.attempt = 0
                    /\ last'.kind = "ok" /\ last'.inv = i
              /\ (last'.kind = "ok" /\ last'.inv = i /\ s.phase = "details") =>
                    /\ t.error = "none"
                    /\ t.pc \in {"fetch", "votes"}
                    /\ t.pc = "fetch" => t.batches # s.batches
                    /\ MapIds(t) = MapIds(s) \cup
                          {last'.data.items[k].id : k \in 1..Len(last'.data.items)} ]_vars

\* three identifiers were requested as the batches <<A, B>> and <<C>>; no
\* response had B, and the invocation went on to the vote lookups
C15_Witness ==
    /\ inv[1].pc = "votes"
    /\ inv[1].ids = <<"A", "B", "C">>
    /\ inv[1].batches = << <<"A", "B">>, <<"C">> >>
    /\ MapIds(inv[1]) = {"A", "C"}
    /\ inv[1].error = "none"

\* the invocations that are between their click and their end
InFlight == {i \in Invs : inv[i].pc \notin {"idle", "done"}}

\* C16: while two or more invocations are in flight and interleave at their
\* await points the shared key cursor is never corrupted: it stays a position
\* of the pool (0..N-1), a step that runs rotateKey moves it from c to
\* (c + 1) mod N, and no other step changes it, so k rotations from i leave it
\* at (i + k) mod N.
C16_CursorNeverCorrupted ==
    [][ Cardinality(InFlight) >= 2 =>
          /\ currentKeyIndex' # NaN
          /\ Len(API_KEYS) >= 1 =>
                /\ currentKeyIndex' \in 0..(Len(API_KEYS) - 1)
                /\ IF last'.kind \in RotateReasons
                   THEN currentKeyIndex' = (currentKeyIndex + 1) % Len(API_KEYS)
                   ELSE currentKeyIndex' = currentKeyIndex
          /\ Len(API_KEYS) = 0 => currentKeyIndex' = currentKeyIndex ]_vars

\* C17: when every request eventually resolves or rejects, every invocation
\* that was started eventually finishes, in injection or in a failure, and
\* with loading set to false.
C17_InvocationFinishes ==
    \A i \in {1} :
        (inv[i].pc \notin {"idle", "done"}) ~> (inv[i].pc = "done" /\ loading = FALSE)

\* the invocation is over and the button idle again, after a retry that moved
\* the cursor and an injection of one card
C17_Witness ==
    /\ inv[1].pc = "done"
    /\ inv[1].error = "none"
    /\ inv[1].injectCalls = 1
    /\ Len(inv[1].finalList) = 1
    /\ currentKeyIndex = 1
    /\ loading = FALSE

\* C18: an invocation sends no detail request and starts no vote lookup
\* before its last search page request has completed, and it calls
\* injectEnhancedResults at most once, only when every detail batch has been
\* answered and every vote lookup has settled.
C18_FetchThenFanOutThenInject ==
    [][ \A i \in Invs :
          LET s == inv[i]
              t == inv'[i]
          IN  /\ (t.pc = "fetch" /\ t.phase = "search" /\ t # s) =>
                    s.pc = "idle" \/ s.phase = "search"
              /\ (t.phase = "details" /\ s.phase = "search") =>
                    /\ SearchPageReturned(i)
                    /\ t.pc = "fetch"
                    /\ \A k \in 1..Len(t.enriched) : FALSE
              /\ (t.pc = "votes" /\ s.pc # "votes") =>
                    /\ s.pc = "fetch" /\ s.phase = "details"
                    /\ last'.kind = "ok" /\ last'.inv = i
                    /\ Flatten(t.batches) = t.ids
              /\ s.pc = "votes" => t.pc \in {"votes", "done"}
              /\ s.pc = "done" => t = s
              /\ t.injectCalls \in {0, 1}
              /\ (t.injectCalls = 1 /\ s.injectCalls = 0) =>
                    /\ t.pc = "done"
                    /\ \A k \in 1..Len(t.enriched) : t.enriched[k].st # "pending"
                    /\ \/ /\ s.pc = "votes"
                          /\ Len(t.enriched) = Len(s.allResults)
                       \/ /\ SearchPageReturned(i)
                          /\ \A k \in 1..Len(t.enriched) : t.enriched[k].st = "null" ]_vars

\* an invocation injected after three lookups: one threw, one was answered,
\* and one item had no identifier to look up
C18_Witness ==
    /\ inv[1].pc = "done"
    /\ inv[1].injectCalls = 1
    /\ \E a, b, c \in 1..Len(inv[1].enriched) :
          /\ inv[1].enriched[a].st = "null"
          /\ inv[1].enriched[b].st = "done" /\ inv[1].enriched[b].v.stats.some
          /\ inv[1].enriched[c].st = "done" /\ ~inv[1].enriched[c].v.stats.some

\* C19: with dislikes and view count held constant, computeScore does not
\* decrease when likes grow below FULL_CONFIDENCE_LIKES, the step from 9 to 10
\* likes (penalty 0.5 to 1) included.
C19_ScoreMonotoneInLikes ==
    (result.done /\ arg.likes + 1 < FULL_CONFIDENCE_LIKES) =>
        result.score <= result.next

\* the score of 9 likes against 10 dislikes, and the higher one of 10 likes
C19_Witness ==
    /\ result.done
    /\ arg.likes = 9
    /\ arg.dislikes = 10
    /\ result.score < result.next

\* C20: for non-negative likes, dislikes and view count computeScore lies in
\* [0, 1] (0..1000000 in units of 1e-6).
C20_ScoreInUnitInterval ==
    result.done =>
        /\ result.score \in 0..1000000
        /\ result.next \in 0..1000000

\* every term at its cap: the score is exactly 1
C20_Witness ==
    /\ result.done
    /\ arg.likes > FULL_CONFIDENCE_LIKES
    /\ arg.dislikes = 0
    /\ arg.views = 9999999
    /\ result.score = 1000000

\* the search returned exactly the items A and B, the vote lookup of A gave
\* likes = 30, dislikes = 10 and the one of B likes = 5, dislikes = 1
SearchABVotesHighLow(s) ==
    /\ s.pc = "done"
    /\ s.injectCalls = 1
    /\ Len(s.enriched) = 2
    /\ s.enriched[1].st = "done" /\ s.enriched[1].v.videoId = "A"
    /\ s.enriched[1].v.stats = VoteHigh
    /\ s.enriched[2].st = "done" /\ s.enriched[2].v.videoId = "B"
    /\ s.enriched[2].v.stats = VoteLow

\* C21: end to end, when the search returns the items A and B and the votes
\* are 30/10 for A and 5/1 for B, the list handed to the renderer is exactly
\* A with its votes and score: B is dropped because 5 < MIN_LIKES.
C21_OnlyARendered ==
    \A i \in Invs :
        SearchABVotesHighLow(inv[i]) =>
            /\ Len(inv[i].finalList) = 1
            /\ inv[i].finalList[1] = inv[i].enriched[1].v
            /\ inv[i].finalList[1].likes = 30
            /\ inv[i].finalList[1].dislikes = 10
            /\ inv[i].finalList[1].likePercent = 75000
            /\ inv[i].finalList[1].score =
                  computeScore(30, 10, inv[i].finalList[1].viewCount)
            /\ inv[i].error = "none" => container.content = <<"A">>

\* that invocation has run and the container shows the card of A
C21_Witness ==
    /\ SearchABVotesHighLow(inv[1])
    /\ inv[1].error = "none"
    /\ container.content = <<"A">>
    /\ loading = FALSE

\* the component has handled the events of the location the page is at
UrlStateCurrent ==
    /\ result.listening
    /\ result.currentUrl = arg
    /\ result.searchQuery = arg.query

\* C22: once the events of the current location have been handled the button
\* is rendered exactly when the path is /results and search_query is
\* non-empty; every step that handles an event leaves the component in that
\* condition; a pipeline starts only while the button is rendered, for a
\* /results URL with a query; and handleClick on a component with no query
\* starts nothing: no request is sent and loading does not change.
C22_ButtonOnlyOnResultsWithQuery ==
    [][ /\ (result' # result) =>
              /\ result'.currentUrl = arg /\ result'.searchQuery = arg.query
              /\ shouldShowButton(result') <=>
                    (arg.path = "/results" /\ arg.query \notin {"", AbsentQuery})
        /\ UrlStateCurrent =>
              (shouldShowButton(result) <=>
                    (arg.path = "/results" /\ arg.query \notin {"", AbsentQuery}))
        /\ \A i \in Invs :
              (inv[i].pc = "idle" /\ inv'[i].pc # "idle") =>
                  /\ shouldShowButton(result)
                  /\ result.currentUrl.path = "/results"
                  /\ result.searchQuery \notin {"", AbsentQuery}
        /\ (result.searchQuery \in {"", AbsentQuery}
                /\ \A i \in Invs : inv[i].pc = "idle") =>
              /\ inv' = inv
              /\ loading' = loading ]_vars

\* the button is rendered on /results?search_query=cats after the page came
\* from another location, and a click has sent the first request
C22_Witness ==
    /\ UrlStateCurrent
    /\ shouldShowButton(result)
    /\ arg = [path |-> "/results", query |-> "cats"]
    /\ inv[1].pc = "fetch"
    /\ loading = TRUE

\* the arrival position of an item of the filtered list
ArrivalOf(item) == CHOOSE k \in 1..Len(arg) : Titles[k] = item.title

\* the k-th arrival carries a video identifier
CarriesId(k) == arg[k] \in {"A", "B"}

\* the filtered list holds, for each identifier, the first arrival, in
\* arrival order
C23_FirstArrivalsInOrder ==
    result.done =>
        /\ \A j \in 1..Len(result.out) :
              /\ \E k \in 1..Len(arg) : result.out[j] = RawItem(arg[k], k)
              /\ \A k \in 1..(ArrivalOf(result.out[j]) - 1) :
                    RawItem(arg[k], k).id # result.out[j].id
        /\ \A j, l \in 1..Len(result.out) :
              j < l => ArrivalOf(result.out[j]) < ArrivalOf(result.out[l])
        /\ \A k \in 1..Len(arg) :
              CarriesId(k) =>
                  \E j \in 1..Len(result.out) : result.out[j].id = arg[k]

\* C23: the in-loop deduplication keeps for each identifier the item that
\* arrived first, keeps the survivors in arrival order, and removes every
\* item that carries no video identifier.
C23_DedupRemovesItemsWithoutId ==
    /\ C23_FirstArrivalsInOrder
    /\ result.done =>
          \A j \in 1..Len(result.out) : CarriesId(ArrivalOf(result.out[j]))

\* the keys the attempts of the current call of invocation i were made with
KeysUsed(i) == {inv[i].log[j].key : j \in 1..Len(inv[i].log)}

\* C24: at the step at which a call of youtubeFetch fails with "All YouTube
\* API keys exhausted", every key of the pool has been used for at least one
\* attempt of that call.
C24_ExhaustedAfterEveryKey ==
    [][ \A i \in Invs :
          (inv[i].error # "exhausted" /\ inv'[i].error = "exhausted") =>
              Range(API_KEYS) \subseteq KeysUsed(i) ]_vars

\* C25: once an invocation has injected, window.__yt_original_results__ holds
\* a copy of the results YouTube rendered; no injection replaces it with
\* cards an earlier invocation injected.
C25_BackupHoldsOriginal ==
    (\E i \in Invs : inv[i].injectCalls > 0 /\ container.present) =>
        backup = OriginalContent

\* at most one element with the id is in the document, at most one React
\* root has its host element there, and a call of mountReactApp creates a
\* root only when no such element is there and the search box is
C26_OneElementAndNoOp ==
    [][ /\ arg'.rootInDom <= 1
        /\ Cardinality({k \in 1..Len(result') : result'[k].attached}) <= 1
        /\ Len(result') > Len(result) => (arg.rootInDom = 0 /\ arg.searchBox)
        /\ (arg.rootInDom > 0 \/ ~arg.searchBox) => Len(result') = Len(result) ]_vars

\* C26: after any sequence of mutation callbacks and yt-navigate-finish
\* events at most one element with id find-youtube-gems-root exists and at
\* most one React root is mounted, and mountReactApp does nothing when the
\* element exists or the search box is absent.
C26_OneRootMounted ==
    [][ /\ arg'.rootInDom <= 1
        /\ Len(result') <= 1
        /\ Len(result') > Len(result) => (arg.rootInDom = 0 /\ arg.searchBox)
        /\ (arg.rootInDom > 0 \/ ~arg.searchBox) => Len(result') = Len(result) ]_vars

\* C27: with overlapping invocations loading is true in every state in which
\* an invocation is still running; the invocation that finishes first does
\* not set it to false.
C27_LoadingWhileAnyInFlight ==
    (\E i \in Invs : inv[i].pc \notin {"idle", "done"}) => loading = TRUE

\* C28: with a pool of at least two keys and concurrent calls, an attempt that
\* follows an attempt of the same call answered with a quota or not-enabled
\* reason is made with a different key.
C28_NextAttemptUsesOtherKey ==
    \A i \in Invs :
        LET s == inv[i]
        IN  (/\ Len(API_KEYS) >= 2
             /\ s.pc = "fetch"
             /\ Len(s.log) > 0
             /\ s.log[Len(s.log)].kind \in RotateReasons) =>
                s.reqKey # s.log[Len(s.log)].key

====
